---- MODULE Spec2Model ----
(***************************************************************************)
(* Model of the data-cleaning session of src/DA.py (tab 2: upload, tab 3:  *)
(* cleaning).  The script is re-executed from the top on every widget      *)
(* interaction; st.session_state survives between executions.  One action  *)
(* of the model is one execution of the script for one widget event: the   *)
(* tab-2 block first (it reloads the file whenever one is selected in the  *)
(* uploader), then the tab-3 handler of the button that was clicked.  A    *)
(* handler that ends in st.rerun() leaves pc = "rerun"; the Rerun action   *)
(* is the execution that st.rerun() starts.                                *)
(***************************************************************************)
EXTENDS Integers, Sequences, FiniteSets, TLC

VARIABLES
    pd_version,               \* the pandas release `import pandas as pd` finds installed
    csv_file,                 \* the CSV file the user of this session has on disk
    uploaded_file,            \* the uploader widget: <<>> (None) or <<table>>
    data,                     \* st.session_state.data: <<>> (None) or <<DataFrame>>
    cleaned_data,             \* st.session_state.cleaned_data: <<>> or <<DataFrame>>
    cleaned_ref,              \* the object cleaned_data refers to: "own" or "data"
    column_treatment_status,  \* st.session_state.column_treatment_status
    applied_changes,          \* st.session_state.applied_changes
    cols_with_missing,        \* the selectbox options computed by the last rendering
    widgets,                  \* the widget event the current/last execution handled
    pc,                       \* "idle": waiting for input, "rerun": st.rerun() pending
    sessions,                 \* st.session_state of each of several concurrent sessions
    active                    \* the session whose script was executed last

vars == <<pd_version, csv_file, uploaded_file, data, cleaned_data, cleaned_ref, column_treatment_status,
          applied_changes, cols_with_missing, widgets, pc, sessions, active>>

session == <<data, cleaned_data, cleaned_ref, column_treatment_status, applied_changes>>

---------------------------------------------------------------------------
(* Bounds *)

MaxRows == 3
MaxHistory == 2
MaxSessionHistory == 1

---------------------------------------------------------------------------
(* Cell values.  A cell is <<tag, numerator, denominator, string>>:        *)
(* NaN/None, an exact number n/d in lowest terms, or a string.             *)

Null == <<"null", 0, 1, "">>
Num(n, d) == <<"num", n, d, "">>
Str(s) == <<"str", 0, 1, s>>

IsNull(v) == v[1] = "null"
IsNum(v) == v[1] = "num"

None == <<>>
Some(x) == <<x>>

\* The CSV header of every uploaded file: a numeric and a text column.
Columns == <<"a", "b">>

ColSet(df) == {df.columns[i] : i \in 1..Len(df.columns)}

\* The lines a CSV file is made of: a missing number, a missing text, a full line.
FileRow ==
    {[a |-> Null, b |-> Str("x")],
     [a |-> Num(1, 1), b |-> Null],
     [a |-> Num(2, 1), b |-> Str("x")]}

\* The non-empty CSV files of at most MaxRows lines
Files == UNION {[1..n -> FileRow] : n \in 1..MaxRows}

\* A file whose column a reads 1, 2, missing, 4
ExampleFile ==
    <<[a |-> Num(1, 1), b |-> Str("x")], [a |-> Num(2, 1), b |-> Str("x")],
      [a |-> Null, b |-> Str("x")], [a |-> Num(4, 1), b |-> Str("x")]>>

---------------------------------------------------------------------------
(* pandas *)

\* dtype inference of pd.read_csv for one column
InferDtype(cells) ==
    IF \A i \in 1..Len(cells) : IsNull(cells[i]) \/ IsNum(cells[i])
    THEN IF \E i \in 1..Len(cells) : IsNull(cells[i]) THEN "float64" ELSE "int64"
    ELSE "object"

\* pd.read_csv: a RangeIndex 0..n-1, the header's columns, inferred dtypes
ReadCsv(file) ==
    [columns |-> Columns,
     dtypes  |-> [c \in {"a", "b"} |-> InferDtype([i \in 1..Len(file) |-> file[i][c]])],
     rows    |-> [i \in 1..Len(file) |-> [idx |-> i - 1, cells |-> file[i]]]]

\* pd.api.types.is_numeric_dtype
IsNumericDtype(t) == t \in {"float64", "int64"}

\* len(df)
NRows(df) == Len(df.rows)

\* df[c] as the sequence of its cells in row order
Column(df, c) == [i \in 1..Len(df.rows) |-> df.rows[i].cells[c]]

\* df[c].isnull().sum()
NullCount(df, c) == Cardinality({i \in 1..Len(df.rows) : IsNull(df.rows[i].cells[c])})

\* the rows of a sequence whose positions are in keep, in their order
RECURSIVE SelectAt(_, _, _)
SelectAt(rows, keep, i) ==
    IF i > Len(rows) THEN <<>>
    ELSE (IF i \in keep THEN <<rows[i]>> ELSE <<>>) \o SelectAt(rows, keep, i + 1)

\* dropna() that ignores subset: a row with a null in any column goes
DropNAAnyColumn(df, cols) ==
    [df EXCEPT !.rows =
        SelectAt(df.rows,
                 {i \in 1..Len(df.rows) : \A c \in ColSet(df) : ~IsNull(df.rows[i].cells[c])}, 1)]

\* a dropna that stops after the first row it removes
DropNAFirstOnly(df, cols) ==
    LET bad == {i \in 1..Len(df.rows) : \E c \in cols : IsNull(df.rows[i].cells[c])}
    IN  [df EXCEPT !.rows =
            SelectAt(df.rows,
                     {i \in 1..Len(df.rows) : i \notin bad \/ \E j \in bad : j < i}, 1)]

\* dropna(axis=1): the columns with a null go, the rows stay
DropNAColumns(df, cols) ==
    [df EXCEPT !.columns =
        SelectSeq(df.columns, LAMBDA c : \A i \in 1..Len(df.rows) : ~IsNull(df.rows[i].cells[c]))]

\* df.dropna(subset=cols): a new frame without the rows null in any of cols
DropNA(df, cols) ==
    [df EXCEPT !.rows =
        SelectAt(df.rows,
                 {i \in 1..Len(df.rows) : \A c \in cols : ~IsNull(df.rows[i].cells[c])}, 1)]

\* duplicated(keep='last'): the last occurrence is the one kept
DuplicatedKeepLast(df, i) == \E j \in (i + 1)..Len(df.rows) : df.rows[j].cells = df.rows[i].cells

\* df.duplicated(): a row is a duplicate when an earlier row has the same cells
Duplicated(df, i) == \E j \in 1..(i - 1) : df.rows[j].cells = df.rows[i].cells

\* sort_values(...).drop_duplicates(): the surviving rows in another order
DropDuplicatesReordered(df) ==
    LET kept == SelectAt(df.rows, {i \in 1..Len(df.rows) : ~Duplicated(df, i)}, 1)
    IN  [df EXCEPT !.rows = [i \in 1..Len(kept) |-> kept[Len(kept) + 1 - i]]]

\* df.drop_duplicates(): keep='first', index labels kept
DropDuplicates(df) ==
    [df EXCEPT !.rows = SelectAt(df.rows, {i \in 1..Len(df.rows) : ~Duplicated(df, i)}, 1)]

\* every column offered, with or without missing values
ColsAll(df) == df.columns

\* df.columns[df.isnull().any()].tolist()
ColsWithMissing(df) ==
    SelectSeq(df.columns, LAMBDA c : \E i \in 1..Len(df.rows) : IsNull(df.rows[i].cells[c]))

\* no copy: the name is bound to the same object
CopySameObject(ref) == ref

\* df.copy(): a new object
Copy(ref) == "own"

RECURSIVE Gcd(_, _)
Gcd(m, n) == IF n = 0 THEN m ELSE Gcd(n, m % n)

\* the number n/d (d > 0) in lowest terms
Norm(n, d) ==
    LET g == Gcd(IF n < 0 THEN -n ELSE n, d)
    IN  Num(n \div g, d \div g)

StrOrder == <<"", "Missing", "Unknown", "x", "z">>

StrRank(s) == CHOOSE i \in 1..Len(StrOrder) : StrOrder[i] = s

\* the natural ordering of the values of one column: numbers by value, strings
\* lexicographically (numbers first, for the one mixed case the code can produce)
Less(x, y) ==
    IF IsNum(x) /\ IsNum(y) THEN x[2] * y[3] < y[2] * x[3]
    ELSE IF IsNum(x) # IsNum(y) THEN IsNum(x)
    ELSE StrRank(x[4]) < StrRank(y[4])

\* the non-null cells of a column, in row order
NonNull(cells) == SelectSeq(cells, LAMBDA v : ~IsNull(v))

RECURSIVE SumCells(_)
SumCells(cells) ==
    IF cells = <<>> THEN Num(0, 1)
    ELSE LET h == Head(cells)
             r == SumCells(Tail(cells))
         IN  Norm(h[2] * r[3] + r[2] * h[3], h[3] * r[3])

\* a mean that counts the missing cells as zeros
MeanCountsNulls(cells) ==
    LET s == SumCells(NonNull(cells))
    IN  IF NonNull(cells) = <<>> THEN Null ELSE Norm(s[2], s[3] * Len(cells))

\* Series.mean(): skipna, NaN for a column without values
Mean(cells) ==
    LET xs == NonNull(cells)
        s == SumCells(xs)
    IN  IF xs = <<>> THEN Null ELSE Norm(s[2], s[3] * Len(xs))

\* the k-th smallest (1-based) of a non-empty sequence of numbers
KthSmallest(xs, k) ==
    CHOOSE v \in {xs[i] : i \in 1..Len(xs)} :
        /\ Cardinality({i \in 1..Len(xs) : Less(xs[i], v)}) < k
        /\ Cardinality({i \in 1..Len(xs) : ~Less(v, xs[i])}) >= k

\* a median that takes the lower of the two middle values
MedianLow(cells) ==
    LET xs == NonNull(cells)
    IN  IF xs = <<>> THEN Null ELSE KthSmallest(xs, (Len(xs) + 1) \div 2)

\* Series.median(): skipna, the middle value or the mean of the two middle values
Median(cells) ==
    LET xs == NonNull(cells)
        n == Len(xs)
    IN  IF n = 0 THEN Null
        ELSE IF n % 2 = 1 THEN KthSmallest(xs, (n + 1) \div 2)
        ELSE Mean(<<KthSmallest(xs, n \div 2), KthSmallest(xs, n \div 2 + 1)>>)

\* Series.mode(): the most frequent non-null values, sorted ascending
Modes(cells) ==
    LET xs == NonNull(cells)
        count(v) == Cardinality({i \in 1..Len(xs) : xs[i] = v})
    IN  {v \in {xs[i] : i \in 1..Len(xs)} :
            \A j \in 1..Len(xs) : count(xs[j]) <= count(v)}

\* the fallback is dropped: an empty mode_series yields NaN
ModeValNaN(cells) ==
    LET ms == Modes(cells)
    IN  IF ms = {} THEN Null
        ELSE CHOOSE v \in ms : \A w \in ms : ~Less(w, v)

\* mode_series.iloc[-1]: the last of the tied values
ModeValLast(cells) ==
    LET ms == Modes(cells)
    IN  IF ms = {} THEN Num(0, 1)
        ELSE CHOOSE v \in ms : \A w \in ms : ~Less(v, w)

\* line 554: mode_series[0] if len(mode_series) > 0 else 0
ModeVal(cells) ==
    LET ms == Modes(cells)
    IN  IF ms = {} THEN Num(0, 1)
        ELSE CHOOSE v \in ms : \A w \in ms : ~Less(w, v)

\* f"{x:.2f}": x rounded to two decimals (ties to even), "nan" for NaN
Fmt2(v) ==
    IF IsNull(v) THEN Null
    ELSE LET q == (v[2] * 100) \div v[3]
             r == (v[2] * 100) % v[3]
             up == IF 2 * r > v[3] THEN 1 ELSE IF 2 * r = v[3] THEN q % 2 ELSE 0
         IN  Norm(q + up, 100)

\* an assignment of the value to the whole column
FillEveryCell(cells, value) == [i \in 1..Len(cells) |-> value]

\* Series.fillna(value): fillna(NaN) changes nothing
FillNA(cells, value) == [i \in 1..Len(cells) |-> IF IsNull(cells[i]) THEN value ELSE cells[i]]

\* Series.fillna(method='ffill') as pandas 1.x and 2.x evaluate it: the nearest
\* preceding non-null value, if any
FFill(cells) ==
    [i \in 1..Len(cells) |->
        IF ~IsNull(cells[i]) \/ \A j \in 1..i : IsNull(cells[j]) THEN cells[i]
        ELSE cells[CHOOSE j \in 1..i : ~IsNull(cells[j]) /\ \A k \in (j + 1)..i : IsNull(cells[k])]]

\* Series.fillna(method='bfill'): the nearest following non-null value, if any
BFill(cells) ==
    [i \in 1..Len(cells) |->
        IF ~IsNull(cells[i]) \/ \A j \in i..Len(cells) : IsNull(cells[j]) THEN cells[i]
        ELSE cells[CHOOSE j \in i..Len(cells) : ~IsNull(cells[j]) /\ \A k \in i..(j - 1) : IsNull(cells[k])]]

\* The code pins no pandas release.  Series.fillna accepts method= up to pandas 2.x
\* (deprecated since 2.1); pandas 3 removed the keyword.
PandasVersions == {"2.x", "3.x"}

\* lines 620 and 633: fillna(method=...) raises TypeError where the keyword is gone
FillNAMethodRaises(version) == version = "3.x"

\* the assignment writes the cells into every column of the frame
SetEveryColumn(df, c, cells) ==
    [df EXCEPT !.rows = [i \in 1..Len(df.rows) |->
                            [df.rows[i] EXCEPT !.cells = [k \in DOMAIN @ |-> cells[i]]]]]

\* df[c] = series, for a series with the frame's own index: the column is replaced
SetColumn(df, c, cells) ==
    [df EXCEPT !.rows = [i \in 1..Len(df.rows) |-> [df.rows[i] EXCEPT !.cells[c] = cells[i]]]]

\* df[c] = other[c].values: assigned by position, whatever the labels
AssignByPosition(df, c, other) ==
    [df EXCEPT
        !.rows = [i \in 1..Len(df.rows) |->
                    [df.rows[i] EXCEPT !.cells[c] = other.rows[i].cells[c]]],
        !.dtypes[c] = other.dtypes[c]]

\* df[c] = other[c]: the assigned series is aligned on the index labels of df
\* (NaN for a label other does not have) and brings its dtype
AssignAligned(df, c, other) ==
    [df EXCEPT
        !.rows = [i \in 1..Len(df.rows) |->
                    [df.rows[i] EXCEPT !.cells[c] =
                        IF \E j \in 1..Len(other.rows) : other.rows[j].idx = df.rows[i].idx
                        THEN other.rows[CHOOSE j \in 1..Len(other.rows) :
                                            other.rows[j].idx = df.rows[i].idx].cells[c]
                        ELSE Null]],
        !.dtypes[c] = other.dtypes[c]]

---------------------------------------------------------------------------
(* Script execution *)

NoEvent ==
    [event |-> "none", selected_col |-> "", method |-> "", custom_val |-> Null, error |-> FALSE]

Event(e) == [NoEvent EXCEPT !.event = e]

\* tab 2, lines 245-307: with a file in the uploader every execution of the
\* script reads it again and resets the session's engine state.
Tab2(file, s) ==
    IF file # None
    THEN LET df == ReadCsv(file[1])
         IN  <<Some(df), Some(df), Copy("data"), <<>>, <<>>>>
    ELSE s

\* tab 3, lines 329-334: the working dataset
Tab3Working(s) == IF s[1] # None /\ s[2] = None THEN <<s[1], s[1], Copy("data"), s[4], s[5]>> ELSE s

\* the session state when the script reaches the tab-3 handlers
Loaded(file, s) == Tab3Working(Tab2(file, s))

\* lines 398-401, evaluated by an execution that renders the whole page
Rendered(s) == IF s[1] = None THEN <<>> ELSE ColsWithMissing(s[2][1])

\* the browser sessions served side by side
SessionIds == {1, 2}

\* lines 94-116: the state of a session whose script has not run a handler yet
NewSession ==
    [uploaded_file |-> None, state |-> <<None, None, "own", <<>>, <<>>>>,
     cols_with_missing |-> <<>>, pc |-> "idle"]

Init ==
    /\ pd_version \in PandasVersions
    /\ csv_file \in Files \cup {ExampleFile}
    /\ uploaded_file = None
    /\ data = None
    /\ cleaned_data = None
    /\ cleaned_ref = "own"
    /\ column_treatment_status = <<>>
    /\ applied_changes = <<>>
    /\ cols_with_missing = <<>>
    /\ widgets = NoEvent
    /\ pc = "idle"
    /\ sessions = [i \in SessionIds |-> NewSession]
    /\ active = 0

\* the session state at the end of an execution
Store(s) ==
    /\ data' = s[1]
    /\ cleaned_data' = s[2]
    /\ cleaned_ref' = s[3]
    /\ column_treatment_status' = s[4]
    /\ applied_changes' = s[5]

\* The user picks the file in the uploader: the script runs with no button pressed.
\* Loading resets data, cleaned_data, the records and the history, so what follows
\* an upload depends on the uploaded file alone: a session that goes on to upload
\* another file continues as the session of that file does from its first upload.
Upload ==
    /\ pc = "idle"
    /\ uploaded_file' = Some(csv_file)
    /\ LET s == Loaded(Some(csv_file), session)
       IN  Store(s) /\ cols_with_missing' = Rendered(s)
    /\ widgets' = Event("upload")
    /\ pc' = "idle"
    /\ UNCHANGED <<pd_version, sessions, active, csv_file>>

\* The user removes the file from the uploader: the script runs, tab 2 loads nothing.
RemoveFile ==
    /\ pc = "idle"
    /\ uploaded_file # None
    /\ uploaded_file' = None
    /\ LET s == Loaded(None, session)
       IN  Store(s) /\ cols_with_missing' = Rendered(s)
    /\ widgets' = Event("remove_file")
    /\ pc' = "idle"
    /\ UNCHANGED <<pd_version, sessions, active, csv_file>>

\* The execution started by st.rerun(): from the top, no button pressed.
Rerun ==
    /\ pc = "rerun"
    /\ LET s == Loaded(uploaded_file, session)
       IN  Store(s) /\ cols_with_missing' = Rendered(s)
    /\ widgets' = NoEvent
    /\ pc' = "idle"
    /\ UNCHANGED <<pd_version, sessions, active, csv_file, uploaded_file>>

\* lines 362-366: the session after the Remove All Duplicates handler
RemoveDuplicatesHandler(s) ==
    LET df == s[2][1]
        result == DropDuplicates(df)
        removed == NRows(df) - NRows(result)
    IN  <<s[1], Some(result), "own", s[4],
          Append(s[5], <<"Removed duplicate rows", "", Num(removed, 1)>>)>>

\* lines 360-368
RemoveAllDuplicates ==
    /\ pc = "idle"
    /\ LET s == Loaded(uploaded_file, session)
       IN  /\ s[1] # None
           /\ Len(s[5]) < MaxHistory
           /\ Store(RemoveDuplicatesHandler(s))
    /\ widgets' = Event("remove_duplicates")
    /\ pc' = "rerun"
    /\ UNCHANGED <<pd_version, sessions, active, csv_file, uploaded_file, cols_with_missing>>

\* a record written only for a column that has none yet
MarkDroppedIfAbsent(status, c) ==
    IF c \in DOMAIN status THEN status[c] ELSE [treated |-> TRUE, method |-> "Drop Rows"]

\* lines 378-382: the record of one column after Drop All Missing Rows
MarkDropped(status, c) ==
    IF c \in DOMAIN status
    THEN [status[c] EXCEPT !.treated = TRUE, !.method = "Drop Rows"]
    ELSE [treated |-> TRUE, method |-> "Drop Rows"]

\* lines 372-382: the session after the Drop All Missing Rows handler
DropAllMissingHandler(s) ==
    LET df == s[2][1]
        result == DropNA(df, ColSet(df))
        removed == NRows(df) - NRows(result)
    IN  <<s[1], Some(result), "own",
          [c \in DOMAIN s[4] \cup ColSet(df) |->
              IF c \in ColSet(df) THEN MarkDropped(s[4], c) ELSE s[4][c]],
          Append(s[5], <<"Dropped rows with any missing values", "", Num(removed, 1)>>)>>

\* lines 370-384
DropAllMissingRows ==
    /\ pc = "idle"
    /\ LET s == Loaded(uploaded_file, session)
       IN  /\ s[1] # None
           /\ Len(s[5]) < MaxHistory
           /\ Store(DropAllMissingHandler(s))
    /\ widgets' = Event("drop_all_missing")
    /\ pc' = "rerun"
    /\ UNCHANGED <<pd_version, sessions, active, csv_file, uploaded_file, cols_with_missing>>

\* a reset that forgets to clear the treatment records
ResetAllKeepsRecords(s) == <<s[1], s[1], Copy("data"), s[4], <<>>>>

\* lines 388-390: the session after the Reset All Changes handler
ResetAllHandler(s) == <<s[1], s[1], Copy("data"), <<>>, <<>>>>

\* lines 386-392
ResetAllChanges ==
    /\ pc = "idle"
    /\ LET s == Loaded(uploaded_file, session)
       IN  /\ s[1] # None
           /\ Store(ResetAllHandler(s))
    /\ widgets' = Event("reset_all")
    /\ pc' = "rerun"
    /\ UNCHANGED <<pd_version, sessions, active, csv_file, uploaded_file, cols_with_missing>>

\* lines 475-503: the radio's options for the column's dtype
NumericMethods ==
    {"Fill with Mean", "Fill with Median", "Fill with Mode", "Fill with 0",
     "Fill with Custom Value", "Forward Fill", "Backward Fill", "Drop Rows"}

CategoricalMethods ==
    {"Fill with Mode", "Fill with 'Unknown'", "Fill with 'Missing'",
     "Fill with Custom Value", "Forward Fill", "Backward Fill", "Drop Rows"}

\* one radio with the options of both dtypes
MethodsOfAnyType(col_type) == NumericMethods \cup CategoricalMethods

Methods(col_type) == IF IsNumericDtype(col_type) THEN NumericMethods ELSE CategoricalMethods

\* lines 486 and 501: the value the input widget holds when the user enters nothing
DefaultCustomValue(col_type) == IF IsNumericDtype(col_type) THEN Num(0, 1) ELSE Str("")

\* lines 483-503: st.number_input(value=0.0) / st.text_input(value=""), shown for
\* Fill with Custom Value only; the first value of each is the widget's default
CustomValues(col_type, method) ==
    IF method # "Fill with Custom Value" THEN {Null}
    ELSE IF IsNumericDtype(col_type) THEN {Num(0, 1), Num(3, 1)}
    ELSE {Str(""), Str("z")}

\* lines 508-643: the branch of one method.  The result is the new frame, whether
\* cleaned_data is bound to a new object (dropna) or its column assigned in place,
\* the record's details and the history entry.
Treatment(df, c, method, custom_val) ==
    LET cells == Column(df, c)
        fill(value, details, change) ==
            [df |-> SetColumn(df, c, FillNA(cells, value)), rebind |-> FALSE,
             details |-> details, change |-> change]
    IN  CASE method = "Drop Rows" ->
               LET result == DropNA(df, {c})
                   removed == NRows(df) - NRows(result)
               IN  [df |-> result, rebind |-> TRUE,
                    details |-> <<"Removed rows", Num(removed, 1)>>,
                    change |-> <<"Dropped rows for column", c, Num(removed, 1)>>]
          [] method = "Fill with Mean" ->
               fill(Mean(cells), <<"Filled with mean", Fmt2(Mean(cells))>>,
                    <<"Filled column with mean", c, Fmt2(Mean(cells))>>)
          [] method = "Fill with Median" ->
               fill(Median(cells), <<"Filled with median", Fmt2(Median(cells))>>,
                    <<"Filled column with median", c, Fmt2(Median(cells))>>)
          [] method = "Fill with Mode" ->
               fill(ModeVal(cells), <<"Filled with mode", ModeVal(cells)>>,
                    <<"Filled column with mode", c, ModeVal(cells)>>)
          [] method = "Fill with 0" ->
               fill(Num(0, 1), <<"Filled with 0", Null>>, <<"Filled column with 0", c, Null>>)
          [] method = "Fill with 'Unknown'" ->
               fill(Str("Unknown"), <<"Filled with 'Unknown'", Null>>,
                    <<"Filled column with 'Unknown'", c, Null>>)
          [] method = "Fill with 'Missing'" ->
               fill(Str("Missing"), <<"Filled with 'Missing'", Null>>,
                    <<"Filled column with 'Missing'", c, Null>>)
          [] method = "Fill with Custom Value" ->
               fill(custom_val, <<"Filled with", custom_val>>,
                    <<"Filled column with custom value", c, custom_val>>)
          [] method = "Forward Fill" ->
               [df |-> SetColumn(df, c, FFill(cells)), rebind |-> FALSE,
                details |-> <<"Applied forward fill", Null>>,
                change |-> <<"Applied forward fill to column", c, Null>>]
          [] method = "Backward Fill" ->
               [df |-> SetColumn(df, c, BFill(cells)), rebind |-> FALSE,
                details |-> <<"Applied backward fill", Null>>,
                change |-> <<"Applied backward fill to column", c, Null>>]

\* the assignment replaces the whole map by the one record
PutRecordOnly(status, c, record) == [k \in {c} |-> record]

\* st.session_state.column_treatment_status[c] = record
PutRecord(status, c, record) ==
    [k \in DOMAIN status \cup {c} |-> IF k = c THEN record ELSE status[k]]

\* del st.session_state.column_treatment_status[c]
DelRecord(status, c) == [k \in DOMAIN status \ {c} |-> status[k]]

\* st.session_state.cleaned_data[c] = ...: the frame cleaned_data refers to is
\* changed in place, and so is every other name bound to that object
AssignInPlace(s, df) ==
    <<IF s[3] = "data" THEN Some(df) ELSE s[1], Some(df), s[3], s[4], s[5]>>

\* lines 507-643: the session after the Apply Treatment handler
ApplyHandler(s, selected_col, method, custom_val) ==
    LET t == Treatment(s[2][1], selected_col, method, custom_val)
        a == IF t.rebind THEN <<s[1], Some(t.df), "own", s[4], s[5]>>
             ELSE AssignInPlace(s, t.df)
    IN  <<a[1], a[2], a[3],
          PutRecord(s[4], selected_col,
                    [treated |-> TRUE, method |-> method,
                     status |-> "Completed", details |-> t.details]),
          Append(s[5], t.change)>>

\* the methods whose branch raises before its first assignment
Raises(version, method) ==
    method \in {"Forward Fill", "Backward Fill"} /\ FillNAMethodRaises(version)

\* an error raised only after the branch has written its record
ApplyErrorAfterRecord(s, selected_col, method) ==
    <<s[1], s[2], s[3],
      PutRecord(s[4], selected_col,
                [treated |-> TRUE, method |-> method, status |-> "Completed",
                 details |-> <<"", Null>>]),
      s[5]>>

\* lines 648-649: the session when the except clause has reported the error.  The
\* call that raises is the right-hand side of the branch's first statement, so
\* nothing has been assigned; st.rerun() is not reached.
ApplyError(s, selected_col, method) == s

\* lines 430-434 and 506-649: Apply Treatment to the column selected in the selectbox
ApplyTreatment ==
    /\ pc = "idle"
    /\ LET s == Loaded(uploaded_file, session)
       IN  /\ s[1] # None
           /\ \E i \in 1..Len(cols_with_missing) :
                LET selected_col == cols_with_missing[i]
                    df == s[2][1]
                IN  /\ \E j \in 1..Len(ColsWithMissing(df)) : ColsWithMissing(df)[j] = selected_col
                    /\ \E method \in Methods(df.dtypes[selected_col]) :
                         \E custom_val \in CustomValues(df.dtypes[selected_col], method) :
                            IF Raises(pd_version, method)
                            THEN /\ Store(ApplyError(s, selected_col, method))
                                 /\ widgets' = [event |-> "apply", selected_col |-> selected_col,
                                                method |-> method, custom_val |-> custom_val,
                                                error |-> TRUE]
                                 /\ cols_with_missing' = Rendered(s)
                                 /\ pc' = "idle"
                            ELSE /\ Len(s[5]) < MaxHistory
                                 /\ Store(ApplyHandler(s, selected_col, method, custom_val))
                                 /\ widgets' = [event |-> "apply", selected_col |-> selected_col,
                                                method |-> method, custom_val |-> custom_val,
                                                error |-> FALSE]
                                 /\ UNCHANGED cols_with_missing
                                 /\ pc' = "rerun"
    /\ UNCHANGED <<pd_version, sessions, active, csv_file, uploaded_file>>

\* lines 654-657: the session after the Reset column handler
ResetColumnHandler(s, selected_col) ==
    LET a == AssignInPlace(s, AssignAligned(s[2][1], selected_col, s[1][1]))
    IN  <<a[1], a[2], a[3], DelRecord(s[4], selected_col),
          Append(s[5], <<"Reset column to original", selected_col, Null>>)>>

\* lines 651-659: Reset the selected column
ResetColumn ==
    /\ pc = "idle"
    /\ LET s == Loaded(uploaded_file, session)
       IN  /\ s[1] # None
           /\ Len(s[5]) < MaxHistory
           /\ \E i \in 1..Len(cols_with_missing) :
                LET selected_col == cols_with_missing[i]
                    df == s[2][1]
                IN  /\ \E j \in 1..Len(ColsWithMissing(df)) : ColsWithMissing(df)[j] = selected_col
                    /\ selected_col \in ColSet(s[1][1])
                    /\ Store(ResetColumnHandler(s, selected_col))
                    /\ widgets' = [Event("reset_column") EXCEPT !.selected_col = selected_col]
    /\ pc' = "rerun"
    /\ UNCHANGED <<pd_version, sessions, active, csv_file, uploaded_file, cols_with_missing>>

\* lines 664-674
ClearHistory ==
    /\ pc = "idle"
    /\ LET s == Loaded(uploaded_file, session)
       IN  /\ s[1] # None
           /\ s[5] # <<>>
           /\ Store(<<s[1], s[2], s[3], s[4], <<>>>>)
    /\ widgets' = Event("clear_history")
    /\ pc' = "rerun"
    /\ UNCHANGED <<pd_version, sessions, active, csv_file, uploaded_file, cols_with_missing>>

Next ==
    \/ Upload
    \/ RemoveFile
    \/ Rerun
    \/ RemoveAllDuplicates
    \/ DropAllMissingRows
    \/ ResetAllChanges
    \/ ApplyTreatment
    \/ ResetColumn
    \/ ClearHistory

Spec == Init /\ [][Next]_vars

---------------------------------------------------------------------------
---------------------------------------------------------------------------
(* Several sessions.  Streamlit runs the script once per session and widget  *)
(* interaction, and st.session_state is the state of the session the script  *)
(* is running for.  The script keeps all it keeps in st.session_state: it    *)
(* has no module-level or cached object.  Each session uploads its file and  *)
(* works on its dataset as the single session above does, with the same      *)
(* handlers.                                                                 *)

\* a state shared by all sessions of the process
StateOfProcess(i) == 1

\* st.session_state in the script executed for session i
StateOf(i) == i

\* the CSV file the user of session i uploads
SessionFile(i) ==
    IF i = 1 THEN <<[a |-> Null, b |-> Str("x")], [a |-> Num(1, 1), b |-> Null]>>
    ELSE <<[a |-> Num(2, 1), b |-> Str("x")], [a |-> Num(2, 1), b |-> Str("x")],
           [a |-> Null, b |-> Str("x")]>>

\* the end of an execution of the script for session i
SessionStore(i, file, s, cols, next_pc) ==
    /\ sessions' = [sessions EXCEPT ![StateOf(i)] =
                       [uploaded_file |-> file, state |-> s,
                        cols_with_missing |-> cols, pc |-> next_pc]]
    /\ active' = i
    /\ UNCHANGED <<pd_version, csv_file, uploaded_file, data, cleaned_data, cleaned_ref,
                   column_treatment_status, applied_changes, cols_with_missing, widgets, pc>>

\* an execution with no button pressed, with this file in the uploader
SessionRender(i, file) ==
    LET s == Loaded(file, sessions[StateOf(i)].state)
    IN  SessionStore(i, file, s, Rendered(s), "idle")

\* as Upload
SessionUpload(i) ==
    /\ sessions[StateOf(i)].pc = "idle"
    /\ SessionRender(i, Some(SessionFile(i)))

\* as RemoveFile
SessionRemoveFile(i) ==
    /\ sessions[StateOf(i)].pc = "idle"
    /\ sessions[StateOf(i)].uploaded_file # None
    /\ SessionRender(i, None)

\* as Rerun
SessionRerun(i) ==
    /\ sessions[StateOf(i)].pc = "rerun"
    /\ SessionRender(i, sessions[StateOf(i)].uploaded_file)

\* the session state when the script executed for session i reaches tab 3
SessionSeen(i) == Loaded(sessions[StateOf(i)].uploaded_file, sessions[StateOf(i)].state)

\* an execution for a button of tab 3 whose handler leaves this result and ends in
\* st.rerun()
SessionClick(i, result, appends) ==
    LET r == sessions[StateOf(i)]
    IN  /\ r.pc = "idle"
        /\ SessionSeen(i)[1] # None
        /\ appends => Len(SessionSeen(i)[5]) < MaxSessionHistory
        /\ SessionStore(i, r.uploaded_file, result, r.cols_with_missing, "rerun")

\* as RemoveAllDuplicates, DropAllMissingRows, ResetAllChanges
SessionRemoveDuplicates(i) == SessionClick(i, RemoveDuplicatesHandler(SessionSeen(i)), TRUE)

SessionDropAllMissing(i) == SessionClick(i, DropAllMissingHandler(SessionSeen(i)), TRUE)

SessionResetAll(i) == SessionClick(i, ResetAllHandler(SessionSeen(i)), FALSE)

\* the columns the selectbox of session i offers and the working dataset still has
SessionSelectable(i) ==
    LET r == sessions[StateOf(i)]
        s == SessionSeen(i)
    IN  IF s[1] = None THEN {}
        ELSE {r.cols_with_missing[k] : k \in 1..Len(r.cols_with_missing)}
                \cap {ColsWithMissing(s[2][1])[k] : k \in 1..Len(ColsWithMissing(s[2][1]))}

\* as ApplyTreatment
SessionApply(i) ==
    LET r == sessions[StateOf(i)]
        s == SessionSeen(i)
    IN  \E selected_col \in SessionSelectable(i) :
          \E method \in Methods(s[2][1].dtypes[selected_col]) :
            \E custom_val \in CustomValues(s[2][1].dtypes[selected_col], method) :
               IF Raises(pd_version, method)
               THEN /\ r.pc = "idle"
                    /\ SessionStore(i, r.uploaded_file, ApplyError(s, selected_col, method),
                                    Rendered(s), "idle")
               ELSE SessionClick(i, ApplyHandler(s, selected_col, method, custom_val), TRUE)

\* as ResetColumn
SessionResetColumn(i) ==
    \E selected_col \in SessionSelectable(i) :
        /\ selected_col \in ColSet(sessions[StateOf(i)].state[1][1])
        /\ SessionClick(i, ResetColumnHandler(SessionSeen(i), selected_col), TRUE)

SessionInit ==
    /\ pd_version \in PandasVersions
    /\ csv_file = ExampleFile
    /\ uploaded_file = None
    /\ data = None
    /\ cleaned_data = None
    /\ cleaned_ref = "own"
    /\ column_treatment_status = <<>>
    /\ applied_changes = <<>>
    /\ cols_with_missing = <<>>
    /\ widgets = NoEvent
    /\ pc = "idle"
    /\ sessions = [i \in SessionIds |-> NewSession]
    /\ active = 0

SessionNext ==
    \E i \in SessionIds :
        \/ SessionUpload(i)
        \/ SessionRemoveFile(i)
        \/ SessionRerun(i)
        \/ SessionRemoveDuplicates(i)
        \/ SessionDropAllMissing(i)
        \/ SessionResetAll(i)
        \/ SessionApply(i)
        \/ SessionResetColumn(i)

SpecSessions == SessionInit /\ [][SessionNext]_vars

(* Properties *)

\* the session state the handler of the next execution starts from
Seen == Loaded(uploaded_file, session)

\* the working dataset that handler is applied to
Working == Seen[2][1]

\* the position in df of the row labelled idx
PosOf(df, idx) == CHOOSE j \in 1..Len(df.rows) : df.rows[j].idx = idx

\* rows is made of rows of df, each once, in the order they have in df
IsSubFrame(rows, df) ==
    /\ \A i \in 1..Len(rows) : \E j \in 1..Len(df.rows) : df.rows[j] = rows[i]
    /\ \A i, k \in 1..Len(rows) : i < k => PosOf(df, rows[i].idx) < PosOf(df, rows[k].idx)

\* C1: once an operation has completed and the page re-renders with the same file
\* still selected, the working dataset and the treatment-record map seen when the
\* next input is accepted are those the operation produced, not a reloaded copy.
C1_RerunKeepsOperationResult ==
    [][(pc = "rerun" /\ uploaded_file # None /\ uploaded_file' = uploaded_file) =>
        /\ cleaned_data' = cleaned_data
        /\ column_treatment_status' = column_treatment_status]_vars

\* C2 (as the specification states it): after ResetColumn(c) column c of the working dataset equals
\* column c of the snapshot cell for cell and in length, and c has no record.
C2_ResetColumnEqualsSnapshotColumn ==
    [][widgets'.event = "reset_column" =>
        /\ Column(cleaned_data'[1], widgets'.selected_col)
              = Column(data'[1], widgets'.selected_col)
        /\ widgets'.selected_col \notin DOMAIN column_treatment_status']_vars

\* C2 (amended): after ResetColumn(c) every row of the working dataset holds in c
\* the value the snapshot has in c for the row with the same label, so c equals the
\* snapshot's column cell for cell and in length when no row has been dropped; rows
\* dropped earlier are not brought back, and c has no treatment record.
C2_ResetColumnRestoresSurvivingRows ==
    [][widgets'.event = "reset_column" =>
        LET c == widgets'.selected_col
            R == cleaned_data'[1]
            O == data'[1]
        IN  /\ NRows(R) = NRows(Working)
            /\ \A i \in 1..NRows(R) :
                /\ R.rows[i].idx = Working.rows[i].idx
                /\ \E j \in 1..NRows(O) :
                    /\ O.rows[j].idx = R.rows[i].idx
                    /\ O.rows[j].cells[c] = R.rows[i].cells[c]
            /\ (NRows(R) = NRows(O) => Column(R, c) = Column(O, c))
            /\ c \notin DOMAIN column_treatment_status']_vars

C2_Witness ==
    /\ pc = "rerun"
    /\ widgets.event = "reset_column"
    /\ Len(applied_changes) = 2
    /\ applied_changes[1][1] = "Dropped rows for column"
    /\ NRows(cleaned_data[1]) = 2
    /\ NRows(data[1]) = 3
    /\ cleaned_data[1].rows[2].idx = 2
    /\ IsNull(cleaned_data[1].rows[2].cells[widgets.selected_col])

\* C3: after ResetAll, whatever came before, the treatment-record map is empty and
\* the working dataset equals the snapshot: same rows, same order, same cells.
C3_ResetAllRestoresSnapshot ==
    [][widgets'.event = "reset_all" =>
        /\ column_treatment_status' = <<>>
        /\ DOMAIN column_treatment_status' = {}
        /\ cleaned_data' = data'
        /\ data' = Seen[1]]_vars

C3_Witness ==
    /\ pc = "rerun"
    /\ widgets.event = "reset_all"
    /\ uploaded_file = None
    /\ cleaned_data = data
    /\ NRows(data[1]) = 3
    /\ ColsWithMissing(data[1]) = <<"a", "b">>
    /\ cols_with_missing = <<>>

\* C4: no operation other than an upload changes the snapshot, and the working
\* dataset is never the snapshot object itself.
C4_SnapshotNeverMutated ==
    /\ [](cleaned_ref # "data")
    /\ [][widgets'.event # "upload" => data' = data]_vars

C4_Witness ==
    /\ pc = "rerun"
    /\ widgets.event = "apply"
    /\ widgets.method = "Fill with 0"
    /\ NRows(cleaned_data[1]) = NRows(data[1])
    /\ cleaned_data # data
    /\ column_treatment_status # <<>>

\* C5: DropRows(c) on a working dataset D where c has k nulls removes exactly the
\* rows null in c: len(D)-k rows are left, each with all its cells, in their
\* relative order, and the removed-row count reported is k.
C5_DropRowsRemovesExactlyNullRows ==
    [][(widgets'.event = "apply" /\ widgets'.method = "Drop Rows") =>
        LET c == widgets'.selected_col
            D == Working
            R == cleaned_data'[1]
            k == NullCount(D, c)
        IN  /\ k > 0
            /\ NRows(R) = NRows(D) - k
            /\ IsSubFrame(R.rows, D)
            /\ \A j \in 1..NRows(D) :
                (\E i \in 1..NRows(R) : R.rows[i] = D.rows[j]) <=> ~IsNull(D.rows[j].cells[c])
            /\ column_treatment_status'[c].details = <<"Removed rows", Num(k, 1)>>
            /\ applied_changes'[Len(applied_changes')] = <<"Dropped rows for column", c, Num(k, 1)>>]_vars

C5_Witness ==
    /\ pc = "rerun"
    /\ widgets.event = "apply"
    /\ widgets.method = "Drop Rows"
    /\ widgets.selected_col = "a"
    /\ NRows(data[1]) = 3
    /\ NRows(cleaned_data[1]) = 2
    /\ cleaned_data[1].rows[1].idx = 0
    /\ cleaned_data[1].rows[2].idx = 2
    /\ IsNull(cleaned_data[1].rows[2].cells["b"])
    /\ column_treatment_status["a"].details = <<"Removed rows", Num(1, 1)>>

\* C6: after FillZero on a column c that has nulls, c has no null, every cell of c
\* that was null is 0, every other cell of the dataset is unchanged, and so is the
\* row count.
C6_FillZero ==
    [][(widgets'.event = "apply" /\ widgets'.method = "Fill with 0") =>
        LET c == widgets'.selected_col
            D == Working
            R == cleaned_data'[1]
        IN  /\ NullCount(D, c) > 0
            /\ NullCount(R, c) = 0
            /\ NRows(R) = NRows(D)
            /\ \A i \in 1..NRows(D) :
                /\ R.rows[i].idx = D.rows[i].idx
                /\ IsNull(D.rows[i].cells[c]) => R.rows[i].cells[c] = Num(0, 1)
                /\ ~IsNull(D.rows[i].cells[c]) => R.rows[i].cells[c] = D.rows[i].cells[c]]_vars

C6_Witness ==
    /\ pc = "rerun"
    /\ widgets.event = "apply"
    /\ widgets.method = "Fill with 0"
    /\ uploaded_file = None
    /\ NRows(cleaned_data[1]) = 3
    /\ \E i, j \in 1..3 :
        /\ IsNull(data[1].rows[i].cells["a"])
        /\ cleaned_data[1].rows[i].cells["a"] = Num(0, 1)
        /\ cleaned_data[1].rows[j].cells["a"] = Num(2, 1)

\* C7: DropAllMissing removes exactly the rows with a null in some column, keeps
\* the others unchanged and in order, and leaves every column with a record that
\* says treated = true, method = Drop Rows.
C7_DropAllMissing ==
    [][widgets'.event = "drop_all_missing" =>
        LET D == Working
            R == cleaned_data'[1]
        IN  /\ IsSubFrame(R.rows, D)
            /\ \A j \in 1..NRows(D) :
                (\E i \in 1..NRows(R) : R.rows[i] = D.rows[j])
                    <=> (\A c \in ColSet(D) : ~IsNull(D.rows[j].cells[c]))
            /\ \A c \in ColSet(R) :
                /\ NullCount(R, c) = 0
                /\ c \in DOMAIN column_treatment_status'
                /\ column_treatment_status'[c].treated = TRUE
                /\ column_treatment_status'[c].method = "Drop Rows"]_vars

C7_Witness ==
    /\ pc = "rerun"
    /\ widgets.event = "drop_all_missing"
    /\ Len(applied_changes) = 2
    /\ applied_changes[1][1] = "Filled column with mean"
    /\ NRows(data[1]) = 3
    /\ NRows(cleaned_data[1]) = 2
    /\ column_treatment_status["a"].method = "Drop Rows"

\* C8: DropAllMissing applied right after DropAllMissing changes nothing: the
\* working dataset stays as the first application left it and 0 rows are removed.
C8_DropAllMissingIdempotent ==
    [][(/\ widgets'.event = "drop_all_missing"
        /\ Seen[5] # <<>>
        /\ Seen[5][Len(Seen[5])][1] = "Dropped rows with any missing values") =>
        /\ cleaned_data' = Seen[2]
        /\ applied_changes'[Len(applied_changes')]
              = <<"Dropped rows with any missing values", "", Num(0, 1)>>]_vars

C8_Witness ==
    /\ pc = "rerun"
    /\ widgets.event = "drop_all_missing"
    /\ Len(applied_changes) = 2
    /\ applied_changes[1] = <<"Dropped rows with any missing values", "", Num(2, 1)>>
    /\ applied_changes[2] = <<"Dropped rows with any missing values", "", Num(0, 1)>>
    /\ NRows(cleaned_data[1]) = 1

\* C9: RemoveDuplicates deletes every row equal in all columns to an earlier row,
\* keeps the first occurrence of each distinct row and the order of the rows it
\* keeps ([r, r, s] becomes [r, s]); applied again right away it removes nothing.
C9_RemoveDuplicates ==
    [][widgets'.event = "remove_duplicates" =>
        LET D == Working
            R == cleaned_data'[1]
        IN  /\ IsSubFrame(R.rows, D)
            /\ \A j \in 1..NRows(D) :
                (\E i \in 1..NRows(R) : R.rows[i] = D.rows[j])
                    <=> (\A e \in 1..(j - 1) : D.rows[e].cells # D.rows[j].cells)
            /\ \A i, k \in 1..NRows(R) : i # k => R.rows[i].cells # R.rows[k].cells
            /\ (/\ NRows(D) = 3
                /\ D.rows[1].cells = D.rows[2].cells
                /\ D.rows[3].cells # D.rows[1].cells)
                  => R.rows = <<D.rows[1], D.rows[3]>>
            /\ (Seen[5] # <<>> /\ Seen[5][Len(Seen[5])][1] = "Removed duplicate rows")
                  => /\ cleaned_data' = Seen[2]
                     /\ applied_changes'[Len(applied_changes')]
                           = <<"Removed duplicate rows", "", Num(0, 1)>>]_vars

C9_Witness ==
    /\ pc = "rerun"
    /\ widgets.event = "remove_duplicates"
    /\ applied_changes = <<<<"Removed duplicate rows", "", Num(1, 1)>>,
                          <<"Removed duplicate rows", "", Num(0, 1)>>>>
    /\ NRows(data[1]) = 3
    /\ data[1].rows[1].cells = data[1].rows[2].cells
    /\ cleaned_data[1].rows = <<data[1].rows[1], data[1].rows[3]>>

\* C10: whenever input is accepted, the columns offered for treatment are exactly
\* the columns with at least one null in the current working dataset, and a column
\* treatment is only ever applied to a column that has a null.
C10_OfferedColumnsHaveNulls ==
    /\ []((pc = "idle" /\ cleaned_data # None) =>
            LET df == cleaned_data[1]
            IN  /\ Seen[2] = cleaned_data
                /\ cols_with_missing = SelectSeq(df.columns, LAMBDA c : NullCount(df, c) > 0))
    /\ [][widgets'.event = "apply" => NullCount(Working, widgets'.selected_col) > 0]_vars

C10_Witness ==
    /\ pc = "idle"
    /\ uploaded_file = None
    /\ cleaned_data # None
    /\ ColsWithMissing(data[1]) = <<"a", "b">>
    /\ cols_with_missing = <<"b">>
    /\ "a" \in DOMAIN column_treatment_status
    /\ column_treatment_status["a"].method = "Fill with Median"

\* C11: applying Fill with Custom Value while the input still holds what it holds
\* when the user has entered nothing fails: the error is reported, no cell of the
\* working dataset changes and no record is written.
C11_FillCustomWithoutValueFails ==
    [][(/\ widgets'.event = "apply"
        /\ widgets'.method = "Fill with Custom Value"
        /\ widgets'.custom_val = DefaultCustomValue(Working.dtypes[widgets'.selected_col])) =>
            /\ widgets'.error
            /\ cleaned_data' = Seen[2]
            /\ column_treatment_status' = Seen[4]]_vars

\* an Apply Treatment step with this method that completed
Applied(method) ==
    widgets'.event = "apply" /\ widgets'.method = method /\ ~widgets'.error

\* the number of cells of a column equal to v
CountOf(cells, v) == Cardinality({i \in 1..Len(cells) : cells[i] = v})

\* C12: Fill with Mode on a column c that has a value writes into every null cell
\* of c a value of c that no other value of c exceeds in frequency and that no
\* equally frequent value precedes in the natural ordering; the other cells of c
\* and the row count stay as they are.
C12_FillModeFirstOfMostFrequent ==
    [][(Applied("Fill with Mode") /\ NonNull(Column(Working, widgets'.selected_col)) # <<>>) =>
        LET old == Column(Working, widgets'.selected_col)
            new == Column(cleaned_data'[1], widgets'.selected_col)
        IN  /\ Len(new) = Len(old)
            /\ \A i \in 1..Len(old) :
                 IF ~IsNull(old[i]) THEN new[i] = old[i]
                 ELSE /\ \E j \in 1..Len(old) : ~IsNull(old[j]) /\ new[i] = old[j]
                      /\ \A j \in 1..Len(old) :
                           ~IsNull(old[j]) =>
                               /\ CountOf(old, old[j]) <= CountOf(old, new[i])
                               /\ CountOf(old, old[j]) = CountOf(old, new[i]) =>
                                      ~Less(old[j], new[i])]_vars

\* Fill with Mode has been applied to a column in which 1 and 2 were tied: the
\* null cell holds 1
C12_Witness ==
    /\ pc = "rerun"
    /\ uploaded_file # None
    /\ widgets.event = "apply" /\ widgets.method = "Fill with Mode" /\ ~widgets.error
    /\ widgets.selected_col = "a"
    /\ LET old == Column(data[1], "a")
           new == Column(cleaned_data[1], "a")
       IN  /\ Len(new) = Len(old)
           /\ CountOf(old, Num(1, 1)) = 1 /\ CountOf(old, Num(2, 1)) = 1
           /\ \E i \in 1..Len(old) : IsNull(old[i]) /\ new[i] = Num(1, 1)

\* v is the sum of the non-null cells divided by their number
IsMeanOf(v, cells) ==
    LET xs == NonNull(cells)
        s == SumCells(xs)
    IN  IsNum(v) /\ v[2] * s[3] * Len(xs) = s[2] * v[3]

\* x <= y for two numbers
Leq(x, y) == x[2] * y[3] <= y[2] * x[3]

\* m is the k-th smallest of the numbers xs
IsRank(m, xs, k) ==
    /\ \E i \in 1..Len(xs) : xs[i] = m
    /\ Cardinality({i \in 1..Len(xs) : ~Leq(m, xs[i])}) < k
    /\ Cardinality({i \in 1..Len(xs) : Leq(xs[i], m)}) >= k

\* v is the middle of the non-null cells: the middle one of an odd number of
\* them, half the sum of the two middle ones of an even number
IsMedianOf(v, cells) ==
    LET xs == NonNull(cells)
        n == Len(xs)
    IN  /\ IsNum(v)
        /\ \E i, j \in 1..n :
             /\ IsRank(xs[i], xs, (n + 1) \div 2)
             /\ IsRank(xs[j], xs, n \div 2 + 1)
             /\ 2 * v[2] * xs[i][3] * xs[j][3] = (xs[i][2] * xs[j][3] + xs[j][2] * xs[i][3]) * v[3]

\* the cells of the selected column before and after a fill: every null cell now
\* holds a value that satisfies P, every other cell is as it was
FilledWith(P(_, _)) ==
    LET old == Column(Working, widgets'.selected_col)
        new == Column(cleaned_data'[1], widgets'.selected_col)
    IN  /\ Len(new) = Len(old)
        /\ \A i \in 1..Len(old) : IF IsNull(old[i]) THEN P(new[i], old) ELSE new[i] = old[i]

\* C13: Fill with Mean (Fill with Median) on a column that has a value writes
\* into every null cell the mean (median) of the non-null values the column has in
\* the working dataset the step starts from; for 1, 2, missing, 4 the mean written
\* is 7/3 and the median written is 2.
C13_MeanMedianFromLiveColumn ==
    [][/\ (Applied("Fill with Mean") /\ NonNull(Column(Working, widgets'.selected_col)) # <<>>) =>
            FilledWith(IsMeanOf)
       /\ (Applied("Fill with Median") /\ NonNull(Column(Working, widgets'.selected_col)) # <<>>) =>
            FilledWith(IsMedianOf)
       /\ (Applied("Fill with Mean") /\ Column(Working, "a") = Column(ReadCsv(ExampleFile), "a")) =>
            Column(cleaned_data'[1], "a") = <<Num(1, 1), Num(2, 1), Num(7, 3), Num(4, 1)>>
       /\ (Applied("Fill with Median") /\ Column(Working, "a") = Column(ReadCsv(ExampleFile), "a")) =>
            Column(cleaned_data'[1], "a") = <<Num(1, 1), Num(2, 1), Num(2, 1), Num(4, 1)>>]_vars

\* Fill with Mean has been applied after a row was dropped: the value written is not
\* the mean of the snapshot's column
C13_Witness ==
    /\ pc = "rerun"
    /\ widgets.event = "apply" /\ widgets.method = "Fill with Mean" /\ ~widgets.error
    /\ NRows(cleaned_data[1]) < NRows(data[1])
    /\ \E i \in 1..NRows(cleaned_data[1]) :
         LET row == cleaned_data[1].rows[i]
             c == widgets.selected_col
         IN  /\ IsNull(data[1].rows[PosOf(data[1], row.idx)].cells[c])
             /\ IsNum(row.cells[c])
             /\ row.cells[c] # Mean(Column(data[1], c))

\* the worked example: the mean has been written into 1, 2, missing, 4
C13_ExampleReached ==
    /\ csv_file = ExampleFile
    /\ pc = "rerun"
    /\ widgets.event = "apply" /\ widgets.method = "Fill with Mean"
    /\ Column(cleaned_data[1], "a")[3] = Num(7, 3)

\* the rounding policies of the specification
RoundingPolicies == {"Keep", "RoundUp", "RoundDown", "RoundNearest"}

\* the largest integer not above the number v
Floor(v) == Num(v[2] \div v[3], 1)

\* the number v rounded by a policy (RoundNearest: halves go to the even neighbour)
Rounded(policy, v) ==
    LET q == v[2] \div v[3]
        r == v[2] % v[3]
    IN  CASE policy = "Keep" -> v
          [] policy = "RoundDown" -> Floor(v)
          [] policy = "RoundUp" -> IF r = 0 THEN v ELSE Num(q + 1, 1)
          [] policy = "RoundNearest" ->
               IF 2 * r > v[3] \/ (2 * r = v[3] /\ q % 2 = 1) THEN Num(q + 1, 1) ELSE Num(q, 1)

\* C14: whichever of the four rounding policies the caller asks for, Fill with Mean
\* and Fill with Median write the statistic rounded by that policy.  The handler
\* reads no policy (lines 475-488 offer none), so the step it takes is the step every
\* policy gets.
C14_StatisticRoundedByPolicy ==
    [][\A policy \in RoundingPolicies :
        /\ (Applied("Fill with Mean") /\ NonNull(Column(Working, widgets'.selected_col)) # <<>>) =>
             FilledWith(LAMBDA v, old : v = Rounded(policy, Mean(old)))
        /\ (Applied("Fill with Median") /\ NonNull(Column(Working, widgets'.selected_col)) # <<>>) =>
             FilledWith(LAMBDA v, old : v = Rounded(policy, Median(old)))]_vars

\* new is old with each null cell replaced by the nearest non-null cell before it
\* (dir = -1) or after it (dir = 1), and left null where there is none
FilledAlong(new, old, dir) ==
    /\ Len(new) = Len(old)
    /\ \A i \in 1..Len(old) :
         LET side == {j \in 1..Len(old) : (j - i) * dir > 0 /\ ~IsNull(old[j])}
         IN  IF ~IsNull(old[i]) THEN new[i] = old[i]
             ELSE IF side = {} THEN IsNull(new[i])
             ELSE \E j \in side : /\ \A k \in side : (k - i) * dir >= (j - i) * dir
                                  /\ new[i] = old[j]

\* the rows of the working dataset are the same rows in the same order, column c apart
SameRowsBut(c) ==
    /\ NRows(cleaned_data'[1]) = NRows(Working)
    /\ \A i \in 1..NRows(Working) :
         /\ cleaned_data'[1].rows[i].idx = Working.rows[i].idx
         /\ \A k \in ColSet(Working) \ {c} :
              cleaned_data'[1].rows[i].cells[k] = Working.rows[i].cells[k]

\* a Forward Fill or Backward Fill step keeps the rows and fills along their order
FillAlongStep(method, dir) ==
    (widgets'.event = "apply" /\ widgets'.method = method /\ ~widgets'.error) =>
        /\ SameRowsBut(widgets'.selected_col)
        /\ FilledAlong(Column(cleaned_data'[1], widgets'.selected_col),
                       Column(Working, widgets'.selected_col), dir)

\* C15: Forward Fill (Backward Fill) succeeds, keeps the rows and their order, and
\* replaces each null cell of c by the nearest non-null value before (after) it,
\* leaving null the cells that have none; the summary rendered next lists c with the
\* null count the fill left.
C15_FillAlongRowOrder ==
    [][/\ (widgets'.event = "apply" /\ widgets'.method \in {"Forward Fill", "Backward Fill"}) =>
            ~widgets'.error
       /\ FillAlongStep("Forward Fill", -1)
       /\ FillAlongStep("Backward Fill", 1)
       /\ (/\ pc = "rerun" /\ widgets.event = "apply"
           /\ widgets.method \in {"Forward Fill", "Backward Fill"}
           /\ NullCount(cleaned_data[1], widgets.selected_col) > 0) =>
            /\ \E i \in 1..Len(cols_with_missing') : cols_with_missing'[i] = widgets.selected_col
            /\ NullCount(cleaned_data'[1], widgets.selected_col) =
                   NullCount(cleaned_data[1], widgets.selected_col)]_vars

\* what holds of the fill itself, whenever the call does not raise
C15_FillSemantics == [][FillAlongStep("Forward Fill", -1) /\ FillAlongStep("Backward Fill", 1)]_vars

\* the text of the detail string each method writes
DetailText(method) ==
    CASE method = "Drop Rows" -> "Removed rows"
      [] method = "Fill with Mean" -> "Filled with mean"
      [] method = "Fill with Median" -> "Filled with median"
      [] method = "Fill with Mode" -> "Filled with mode"
      [] method = "Fill with 0" -> "Filled with 0"
      [] method = "Fill with 'Unknown'" -> "Filled with 'Unknown'"
      [] method = "Fill with 'Missing'" -> "Filled with 'Missing'"
      [] method = "Fill with Custom Value" -> "Filled with"
      [] method = "Forward Fill" -> "Applied forward fill"
      [] method = "Backward Fill" -> "Applied backward fill"

\* the detail names what this application did: the rows it removed, the value it
\* wrote (to two decimals for a mean or a median)
DetailDescribes(details, method, c) ==
    LET old == Column(Working, c)
        new == Column(cleaned_data'[1], c)
    IN  /\ details[1] = DetailText(method)
        /\ method = "Drop Rows" => details[2] = Num(NRows(Working) - NRows(cleaned_data'[1]), 1)
        /\ method = "Fill with Custom Value" => details[2] = widgets'.custom_val
        /\ method \in {"Fill with Mean", "Fill with Median"} =>
             \A i \in 1..Len(old) : IsNull(old[i]) => details[2] = Fmt2(new[i])
        /\ method = "Fill with Mode" =>
             \A i \in 1..Len(old) : IsNull(old[i]) => details[2] = new[i]

\* every record but that of column c is as the step found it
OtherRecordsKept(c) ==
    /\ DOMAIN column_treatment_status' \ {c} = DOMAIN Seen[4] \ {c}
    /\ \A k \in DOMAIN Seen[4] \ {c} : column_treatment_status'[k] = Seen[4][k]

\* C16: a completed Apply Treatment on column c leaves for c a record made of
\* treated = TRUE, the method applied, and a detail describing this application,
\* and nothing of a previous record of c; Reset column c leaves no record for c;
\* neither changes the record of another column.
C16_RecordOfLastTreatment ==
    [][/\ (widgets'.event = "apply" /\ ~widgets'.error) =>
            LET c == widgets'.selected_col
                record == column_treatment_status'[c]
            IN  /\ c \in DOMAIN column_treatment_status'
                /\ DOMAIN record = {"treated", "method", "status", "details"}
                /\ record.treated = TRUE
                /\ record.method = widgets'.method
                /\ record.status = "Completed"
                /\ DetailDescribes(record.details, widgets'.method, c)
                /\ OtherRecordsKept(c)
       /\ widgets'.event = "reset_column" =>
            /\ widgets'.selected_col \notin DOMAIN column_treatment_status'
            /\ OtherRecordsKept(widgets'.selected_col)]_vars

\* a column has been treated a second time, with another method, while the other
\* column has a record
C16_Witness ==
    /\ pc = "rerun"
    /\ widgets.event = "apply" /\ ~widgets.error
    /\ Len(applied_changes) = 2
    /\ applied_changes[1][2] = widgets.selected_col
    /\ applied_changes[1][1] # applied_changes[2][1]
    /\ applied_changes[1][1] # "Reset column to original"
    /\ DOMAIN column_treatment_status = {"a", "b"}

\* the methods of the specification for a numeric and for a categorical/text column
SpecNumeric ==
    {"Fill with Mean", "Fill with Median", "Fill with Mode", "Fill with 0",
     "Fill with Custom Value", "Forward Fill", "Backward Fill", "Drop Rows"}

SpecCategorical ==
    {"Fill with Mode", "Fill with 'Unknown'", "Fill with Custom Value", "Forward Fill",
     "Backward Fill", "Drop Rows"}

\* an Apply Treatment click uses a method of the set for the dtype the selected
\* column has in the working dataset, and a custom value of that type
MethodWithin(numeric, categorical) ==
    widgets'.event = "apply" =>
        LET col_type == Working.dtypes[widgets'.selected_col]
        IN  IF IsNumericDtype(col_type)
            THEN /\ widgets'.method \in numeric
                 /\ widgets'.method = "Fill with Custom Value" => IsNum(widgets'.custom_val)
            ELSE /\ widgets'.method \in categorical
                 /\ widgets'.method = "Fill with Custom Value" => widgets'.custom_val[1] = "str"

\* C17 (as the specification states it): the method applied to a categorical/text
\* column is one of Fill with Mode, Fill with 'Unknown', Fill with Custom Value
\* (a string), Forward Fill, Backward Fill, Drop Rows; to a numeric column one of
\* the eight numeric methods.
C17_MethodInSpecSubset == [][MethodWithin(SpecNumeric, SpecCategorical)]_vars

\* C17: the same, with Fill with 'Missing' among the methods of a categorical/text
\* column.
C17_MethodInTypeSubset ==
    [][MethodWithin(SpecNumeric, SpecCategorical \cup {"Fill with 'Missing'"})]_vars

\* Fill with 'Missing' has been applied to a text column
C17_Witness ==
    /\ pc = "rerun"
    /\ widgets.event = "apply" /\ widgets.method = "Fill with 'Missing'"
    /\ \E i \in 1..NRows(cleaned_data[1]) :
         cleaned_data[1].rows[i].cells[widgets.selected_col] = Str("Missing")

\* C18: an execution of the script for one session leaves the snapshot, the working
\* dataset, the record map and the history of every other session as they were,
\* however the executions of the sessions are interleaved.
C18_SessionsIsolated ==
    [][\A j \in SessionIds : j # active' => sessions'[j] = sessions[j]]_vars

\* session 2 has treated its dataset between a handler of session 1 and the
\* execution that handler's st.rerun() starts; the two sessions hold different data
C18_Witness ==
    /\ active = 2
    /\ sessions[1].pc = "rerun"
    /\ sessions[2].pc = "rerun"
    /\ sessions[1].state[4] # <<>> /\ sessions[2].state[4] # <<>>
    /\ sessions[1].state[2] # sessions[2].state[2]
    /\ sessions[1].state[1] # sessions[2].state[1]

\* C19: an Apply Treatment that ends in the except clause leaves the snapshot, the
\* working dataset, the record map and the history as they were before the click,
\* and the page waits for input with the column still offered.
C19_FailedApplyChangesNothing ==
    [][(widgets'.event = "apply" /\ widgets'.error) =>
        /\ session' = session
        /\ pc' = "idle"
        /\ \E i \in 1..Len(cols_with_missing') : cols_with_missing'[i] = widgets'.selected_col]_vars

\* an Apply Treatment has failed in a session that had treated a column before
C19_Witness ==
    /\ widgets.event = "apply" /\ widgets.error
    /\ pc = "idle"
    /\ column_treatment_status # <<>>
    /\ applied_changes # <<>>
    /\ cleaned_data # data

\* C20: the working dataset always has the column names of the snapshot, in the
\* same order, and every column the selectbox offers (the column Reset column
\* acts on) is a column of the snapshot.
C20_SchemaNeverChanges ==
    data # None =>
        /\ cleaned_data # None
        /\ cleaned_data[1].columns = data[1].columns
        /\ DOMAIN cleaned_data[1].dtypes = DOMAIN data[1].dtypes
        /\ \A i \in 1..NRows(cleaned_data[1]) :
             DOMAIN cleaned_data[1].rows[i].cells = ColSet(data[1])
        /\ \A i \in 1..Len(cols_with_missing) : cols_with_missing[i] \in ColSet(data[1])

\* Reset column has run on a working dataset that had lost rows and had been filled
C20_Witness ==
    /\ pc = "rerun"
    /\ widgets.event = "reset_column"
    /\ Len(applied_changes) = 2
    /\ NRows(cleaned_data[1]) < NRows(data[1])
    /\ cleaned_data[1].columns = <<"a", "b">>

\* C21: no operation of the engine (a column treatment, Remove All Duplicates,
\* Drop All Missing Rows, Reset column) is applied to a working dataset without
\* rows.
C21_OperationsOnNonEmptyData ==
    [][widgets'.event \in {"apply", "remove_duplicates", "drop_all_missing", "reset_column"} =>
        NRows(Working) > 0]_vars

\* the methods that are meant to leave no null in the column
ClearingMethods ==
    {"Fill with Mean", "Fill with Median", "Fill with Mode", "Fill with 0",
     "Fill with 'Unknown'", "Fill with 'Missing'", "Fill with Custom Value", "Drop Rows"}

\* C22: a completed treatment of column c by a method other than Forward Fill and
\* Backward Fill leaves c without a null, also when every cell of c was null; and
\* while the record of a column names one of these methods the column is not among
\* the columns offered for treatment.
C22_TreatedColumnHasNoNull ==
    [][/\ (widgets'.event = "apply" /\ ~widgets'.error /\ widgets'.method \in ClearingMethods) =>
            NullCount(cleaned_data'[1], widgets'.selected_col) = 0
       /\ pc' = "idle" =>
            \A i \in 1..Len(cols_with_missing') :
               LET c == cols_with_missing'[i]
               IN  c \in DOMAIN column_treatment_status' =>
                       column_treatment_status'[c].method \notin ClearingMethods]_vars

\* C23: every record of the treatment-record map has the fields treated, method,
\* status and details, and its details are those the operation named by its method
\* writes.
C23_RecordsConsistent ==
    \A c \in DOMAIN column_treatment_status :
        LET record == column_treatment_status[c]
        IN  /\ DOMAIN record = {"treated", "method", "status", "details"}
            /\ record.details[1] = DetailText(record.method)

C25_ResetColumnChangesOnlyColumn ==
    [][widgets'.event = "reset_column" =>
        LET c == widgets'.selected_col
        IN  /\ SameRowsBut(c)
            /\ data' = data
            /\ \A i \in 1..NRows(cleaned_data'[1]) :
                 LET row == cleaned_data'[1].rows[i]
                 IN  /\ \E j \in 1..NRows(data[1]) : data[1].rows[j].idx = row.idx
                     /\ row.cells[c] = data[1].rows[PosOf(data[1], row.idx)].cells[c]]_vars

\* Reset column has run after the first row was dropped: a surviving row stands
\* above its place in the snapshot and holds another value than the snapshot's row
\* at its position
C25_Witness ==
    /\ pc = "rerun"
    /\ widgets.event = "reset_column"
    /\ NRows(cleaned_data[1]) < NRows(data[1])
    /\ NRows(cleaned_data[1]) > 0
    /\ cleaned_data[1].rows[1].idx > 0
    /\ \E i \in 1..NRows(cleaned_data[1]) :
         cleaned_data[1].rows[i].cells[widgets.selected_col]
            # data[1].rows[i].cells[widgets.selected_col]

\* C26: the rows of the working dataset are rows of the snapshot, each at most
\* once and in the snapshot's order (by row label), so they are never more than
\* the snapshot's rows.
C26_WorkingRowsSubsequenceOfSnapshot ==
    (data # None /\ cleaned_data # None) =>
        LET R == cleaned_data[1].rows
            O == data[1].rows
        IN  /\ \A i \in 1..Len(R) : \E j \in 1..Len(O) : O[j].idx = R[i].idx
            /\ \A i, k \in 1..Len(R) :
                 i < k => PosOf(data[1], R[i].idx) < PosOf(data[1], R[k].idx)
            /\ Len(R) <= Len(O)

\* rows have been removed from the middle and a column has been filled
C26_Witness ==
    /\ data # None /\ cleaned_data # None
    /\ NRows(data[1]) = 3
    /\ NRows(cleaned_data[1]) = 2
    /\ cleaned_data[1].rows[1].idx = 0 /\ cleaned_data[1].rows[2].idx = 2
    /\ \E c \in {"a", "b"} :
         cleaned_data[1].rows[1].cells[c] # data[1].rows[1].cells[c]

\* the methods that fill cells and drop no row
FillMethods ==
    {"Fill with Mean", "Fill with Median", "Fill with Mode", "Fill with 0",
     "Fill with 'Unknown'", "Fill with 'Missing'", "Fill with Custom Value",
     "Forward Fill", "Backward Fill"}

\* C27: a completed fill of column c changes no cell of c that held a value and no
\* cell of another column, and keeps the rows and their order; Remove All
\* Duplicates leaves the treatment-record map as it found it.
C27_FillAndDuplicatesFrame ==
    [][/\ (widgets'.event = "apply" /\ ~widgets'.error /\ widgets'.method \in FillMethods) =>
            /\ SameRowsBut(widgets'.selected_col)
            /\ \A i \in 1..NRows(Working) :
                 LET old == Working.rows[i].cells[widgets'.selected_col]
                 IN  ~IsNull(old) => cleaned_data'[1].rows[i].cells[widgets'.selected_col] = old
       /\ widgets'.event = "remove_duplicates" => column_treatment_status' = Seen[4]]_vars

\* a fill has run on a dataset that had lost a row, in a column that held a value,
\* while the other column held a null
C27_Witness ==
    /\ pc = "rerun"
    /\ widgets.event = "apply" /\ ~widgets.error /\ widgets.method \in FillMethods
    /\ NRows(cleaned_data[1]) = 2 /\ NRows(data[1]) = 3
    /\ \E i \in 1..2 :
         LET row == cleaned_data[1].rows[i]
         IN  ~IsNull(data[1].rows[PosOf(data[1], row.idx)].cells[widgets.selected_col])
    /\ \E c \in {"a", "b"} : c # widgets.selected_col /\ NullCount(cleaned_data[1], c) > 0

\* C28: Fill with Mode on a column c of which every cell of the working dataset is
\* null writes the number 0 into every cell of c, for a numeric and for a text
\* column alike, and records c as treated with the detail "Filled with mode: 0".
C28_FillModeOfAllNullColumn ==
    [][(Applied("Fill with Mode") /\ NonNull(Column(Working, widgets'.selected_col)) = <<>>) =>
        LET c == widgets'.selected_col
            new == Column(cleaned_data'[1], c)
        IN  /\ Len(new) = NRows(Working)
            /\ \A i \in 1..Len(new) : new[i] = Num(0, 1)
            /\ c \in DOMAIN column_treatment_status'
            /\ column_treatment_status'[c].treated = TRUE
            /\ column_treatment_status'[c].method = "Fill with Mode"
            /\ column_treatment_status'[c].details = <<"Filled with mode", Num(0, 1)>>]_vars

\* Fill with Mode has been applied to the text column after the only row that held
\* a text was dropped: the column holds the number 0
C28_Witness ==
    /\ pc = "rerun"
    /\ widgets.event = "apply" /\ widgets.method = "Fill with Mode" /\ ~widgets.error
    /\ widgets.selected_col = "b"
    /\ cleaned_data[1].dtypes["b"] = "object"
    /\ NRows(cleaned_data[1]) > 0
    /\ NRows(cleaned_data[1]) < NRows(data[1])
    /\ \A i \in 1..NRows(cleaned_data[1]) : cleaned_data[1].rows[i].cells["b"] = Num(0, 1)
    /\ column_treatment_status["b"].details = <<"Filled with mode", Num(0, 1)>>

\* Fill with Mode has been applied to a numeric column read with no value at all
C28_WitnessNumeric ==
    /\ pc = "rerun"
    /\ widgets.event = "apply" /\ widgets.method = "Fill with Mode" /\ ~widgets.error
    /\ widgets.selected_col = "a"
    /\ \A i \in 1..Len(csv_file) : IsNull(csv_file[i].a)
    /\ \A i \in 1..NRows(cleaned_data[1]) : cleaned_data[1].rows[i].cells["a"] = Num(0, 1)

\* the operations that append to the history when they complete
Appending ==
    \/ widgets'.event \in {"remove_duplicates", "drop_all_missing", "reset_column"}
    \/ widgets'.event = "apply" /\ ~widgets'.error

\* one step of an append-only history: an operation that completes appends one
\* entry behind the entries there were, Reset All Changes, Clear History and an
\* upload empty it, any other step leaves it as it was
HistoryStep ==
    /\ Appending =>
         /\ Len(applied_changes') = Len(applied_changes) + 1
         /\ SubSeq(applied_changes', 1, Len(applied_changes)) = applied_changes
    /\ widgets'.event \in {"reset_all", "clear_history", "upload"} => applied_changes' = <<>>
    /\ (~Appending /\ widgets'.event \notin {"reset_all", "clear_history", "upload"}) =>
         applied_changes' = applied_changes

\* C29: the change history is append-only between clears: Remove All Duplicates,
\* Drop All Missing Rows, a completed treatment and Reset column append exactly one
\* entry and keep the earlier entries in order; only Reset All Changes, Clear
\* History and an upload empty it; no other step changes it.
C29_HistoryAppendOnly == [][HistoryStep]_vars

\* the same, for the steps of a session whose uploader holds no file
C29_HistoryAppendOnlyWithoutFile ==
    [][(uploaded_file = None /\ uploaded_file' = None) => HistoryStep]_vars

\* a second entry has been appended behind the first
C29_SecondEntryAppended ==
    /\ pc = "rerun"
    /\ uploaded_file = None
    /\ Len(applied_changes) = 2
    /\ widgets.event \in {"remove_duplicates", "drop_all_missing", "reset_column", "apply"}

====
